---- MODULE Spec2Model ----
(***************************************************************************)
(* Stage identities of the staged-sync pipeline                            *)
(* (crates/primitives/src/stage/id.rs): the StageId enum, its two constant *)
(* listings, its string conversion and its classification predicates.      *)
(*                                                                         *)
(* A StageId value is a record [tag, s]: tag is the variant's discriminant *)
(* in declaration order (StaticFile = 0 ... Finish = 12, Other = 13) and s *)
(* is the payload of Other (the empty string for the unit variants).       *)
(***************************************************************************)
EXTENDS Naturals, Sequences, FiniteSets

VARIABLES op, args, ret, idx, kept

vars == <<op, args, ret, idx, kept>>

\* Number of payload strings tried for StageId::Other.
MaxCustom == 7

\* Payload strings for StageId::Other, the colliding ones first.
CustomNames ==
    <<"Foo", "Bar", "Headers", "MyStage", "Bodies", "Finish",
      "TransactionLookup", "StaticFile", "Execution", "">>

Names ==
    {CustomNames[i] : i \in {j \in DOMAIN CustomNames : j <= MaxCustom}}

(***************************************************************************)
(* enum StageId                                                            *)
(***************************************************************************)
StaticFile == [tag |-> 0, s |-> ""]

Headers == [tag |-> 1, s |-> ""]

Bodies == [tag |-> 2, s |-> ""]

SenderRecovery == [tag |-> 3, s |-> ""]

Execution == [tag |-> 4, s |-> ""]

MerkleUnwind == [tag |-> 5, s |-> ""]

AccountHashing == [tag |-> 6, s |-> ""]

StorageHashing == [tag |-> 7, s |-> ""]

MerkleExecute == [tag |-> 8, s |-> ""]

TransactionLookup == [tag |-> 9, s |-> ""]

IndexStorageHistory == [tag |-> 10, s |-> ""]

IndexAccountHistory == [tag |-> 11, s |-> ""]

Finish == [tag |-> 12, s |-> ""]

Other(str) == [tag |-> 13, s |-> str]

\* The unit variants, deprecated StaticFile included.
Named ==
    {StaticFile, Headers, Bodies, SenderRecovery, Execution, MerkleUnwind,
     AccountHashing, StorageHashing, MerkleExecute, TransactionLookup,
     IndexStorageHistory, IndexAccountHistory, Finish}

\* Every StageId value within the bound.
StageId == Named \cup {Other(str) : str \in Names}

\* #[derive(PartialEq)] compared all values by their rendered name.
eq_by_name(a, b) ==
    LET nm(x) == IF x.tag = 13 THEN x.s
                 ELSE CASE x.tag = 0 -> "StaticFile"
                        [] x.tag = 1 -> "Headers"
                        [] x.tag = 2 -> "Bodies"
                        [] x.tag = 3 -> "SenderRecovery"
                        [] x.tag = 4 -> "Execution"
                        [] x.tag = 5 -> "MerkleUnwind"
                        [] x.tag = 6 -> "AccountHashing"
                        [] x.tag = 7 -> "StorageHashing"
                        [] x.tag = 8 -> "MerkleExecute"
                        [] x.tag = 9 -> "TransactionLookup"
                        [] x.tag = 10 -> "IndexStorageHistory"
                        [] x.tag = 11 -> "IndexAccountHistory"
                        [] x.tag = 12 -> "Finish"
    IN  nm(a) = nm(b)

\* #[derive(PartialEq, Eq)]: same discriminant, and equal payloads for Other.
eq(a, b) ==
    /\ a.tag = b.tag
    /\ (a.tag = 13 => a.s = b.s)

(***************************************************************************)
(* StageId::ALL and StageId::STATE_REQUIRED                                *)
(***************************************************************************)
\* ALL with the first two stages listed in the wrong order.
ALL_bodies_first ==
    <<Bodies, Headers, SenderRecovery, Execution, MerkleUnwind,
      AccountHashing, StorageHashing, MerkleExecute, TransactionLookup,
      IndexStorageHistory, IndexAccountHistory, Finish>>

\* ALL still listing the deprecated StaticFile stage (after Finish).
ALL_with_static_file ==
    <<Headers, Bodies, SenderRecovery, Execution, MerkleUnwind,
      AccountHashing, StorageHashing, MerkleExecute, TransactionLookup,
      IndexStorageHistory, IndexAccountHistory, Finish, StaticFile>>

ALL ==
    <<Headers, Bodies, SenderRecovery, Execution, MerkleUnwind,
      AccountHashing, StorageHashing, MerkleExecute, TransactionLookup,
      IndexStorageHistory, IndexAccountHistory, Finish>>

\* STATE_REQUIRED with StaticFile in place of Execution.
STATE_REQUIRED_static_file ==
    <<StaticFile, MerkleUnwind, AccountHashing, StorageHashing,
      MerkleExecute, IndexStorageHistory, IndexAccountHistory>>

\* STATE_REQUIRED with TransactionLookup in place of IndexStorageHistory.
STATE_REQUIRED_tx_lookup ==
    <<Execution, MerkleUnwind, AccountHashing, StorageHashing,
      MerkleExecute, TransactionLookup, IndexAccountHistory>>

STATE_REQUIRED ==
    <<Execution, MerkleUnwind, AccountHashing, StorageHashing,
      MerkleExecute, IndexStorageHistory, IndexAccountHistory>>

(***************************************************************************)
(* StageId::as_str and impl Display                                        *)
(***************************************************************************)
\* as_str with the IndexAccountHistory arm returning its neighbour's name.
as_str_copy_paste(self) ==
    CASE self.tag = 0 -> "StaticFile"
      [] self.tag = 1 -> "Headers"
      [] self.tag = 2 -> "Bodies"
      [] self.tag = 3 -> "SenderRecovery"
      [] self.tag = 4 -> "Execution"
      [] self.tag = 5 -> "MerkleUnwind"
      [] self.tag = 6 -> "AccountHashing"
      [] self.tag = 7 -> "StorageHashing"
      [] self.tag = 8 -> "MerkleExecute"
      [] self.tag = 9 -> "TransactionLookup"
      [] self.tag = 11 -> "IndexStorageHistory"
      [] self.tag = 10 -> "IndexStorageHistory"
      [] self.tag = 12 -> "Finish"
      [] self.tag = 13 -> self.s

\* The match of as_str, arm by arm in the order of the source.
as_str(self) ==
    CASE self.tag = 0 -> "StaticFile"
      [] self.tag = 1 -> "Headers"
      [] self.tag = 2 -> "Bodies"
      [] self.tag = 3 -> "SenderRecovery"
      [] self.tag = 4 -> "Execution"
      [] self.tag = 5 -> "MerkleUnwind"
      [] self.tag = 6 -> "AccountHashing"
      [] self.tag = 7 -> "StorageHashing"
      [] self.tag = 8 -> "MerkleExecute"
      [] self.tag = 9 -> "TransactionLookup"
      [] self.tag = 11 -> "IndexAccountHistory"
      [] self.tag = 10 -> "IndexStorageHistory"
      [] self.tag = 12 -> "Finish"
      [] self.tag = 13 -> self.s

\* fmt writing the derived Debug rendering instead of as_str.
fmt_debug(self, f) ==
    IF self.tag = 13 THEN f \o "Other(\"" \o self.s \o "\")"
    ELSE f \o as_str(self)

\* Display::fmt: write!(f, "{}", self.as_str()) appends the name to f.
fmt(self, f) == f \o as_str(self)

\* ToString::to_string: formats into a fresh, empty String.
to_string(self) == fmt(self, "")

(***************************************************************************)
(* The classification predicates                                           *)
(***************************************************************************)
\* is_downloading_stage without the Bodies pattern.
is_downloading_stage_headers_only(self) == self.tag = Headers.tag

\* is_downloading_stage with SenderRecovery added to the pattern.
is_downloading_stage_with_senders(self) ==
    self.tag \in {Headers.tag, Bodies.tag, SenderRecovery.tag}

\* matches!(self, StageId::Headers | StageId::Bodies)
is_downloading_stage(self) ==
    self.tag = Headers.tag \/ self.tag = Bodies.tag

\* is_tx_lookup matching on the rendered name.
is_tx_lookup_by_name(self) == as_str(self) = "TransactionLookup"

\* matches!(self, StageId::TransactionLookup)
is_tx_lookup(self) == self.tag = TransactionLookup.tag

\* matches!(self, StageId::Finish)
is_finish(self) == self.tag = Finish.tag

\* Membership in STATE_REQUIRED (slice contains, by ==).
requires_state(self) ==
    \E i \in DOMAIN STATE_REQUIRED : eq(STATE_REQUIRED[i], self)

(***************************************************************************)
(* The state machine: one action per operation, recording the call         *)
(* (op, args) and what it returned (ret); idx and kept are the position    *)
(* and the output of a traversal of ALL filtered by is_downloading_stage.  *)
(***************************************************************************)
Init ==
    /\ op = "init"
    /\ args = <<>>
    /\ ret = <<>>
    /\ idx = 0
    /\ kept = <<>>

CallAsStr ==
    \E x \in StageId :
        /\ op' = "as_str"
        /\ args' = <<x>>
        /\ ret' = as_str(x)
        /\ UNCHANGED <<idx, kept>>

CallToString ==
    \E x \in StageId :
        /\ op' = "to_string"
        /\ args' = <<x>>
        /\ ret' = to_string(x)
        /\ UNCHANGED <<idx, kept>>

CallIsDownloadingStage ==
    \E x \in StageId :
        /\ op' = "is_downloading_stage"
        /\ args' = <<x>>
        /\ ret' = is_downloading_stage(x)
        /\ UNCHANGED <<idx, kept>>

CallIsTxLookup ==
    \E x \in StageId :
        /\ op' = "is_tx_lookup"
        /\ args' = <<x>>
        /\ ret' = is_tx_lookup(x)
        /\ UNCHANGED <<idx, kept>>

CallIsFinish ==
    \E x \in StageId :
        /\ op' = "is_finish"
        /\ args' = <<x>>
        /\ ret' = is_finish(x)
        /\ UNCHANGED <<idx, kept>>

CallRequiresState ==
    \E x \in StageId :
        /\ op' = "requires_state"
        /\ args' = <<x>>
        /\ ret' = requires_state(x)
        /\ UNCHANGED <<idx, kept>>

CallEq ==
    \E x \in StageId, y \in StageId :
        /\ op' = "eq"
        /\ args' = <<x, y>>
        /\ ret' = eq(x, y)
        /\ UNCHANGED <<idx, kept>>

\* StageId::ALL.first().unwrap()
AllFirst ==
    /\ Len(ALL) > 0
    /\ op' = "ALL.first"
    /\ args' = <<>>
    /\ ret' = ALL[1]
    /\ UNCHANGED <<idx, kept>>

\* StageId::STATE_REQUIRED[i]
StateRequiredAt ==
    \E i \in DOMAIN STATE_REQUIRED :
        /\ op' = "STATE_REQUIRED.get"
        /\ args' = <<i>>
        /\ ret' = STATE_REQUIRED[i]
        /\ UNCHANGED <<idx, kept>>

\* A new traversal of ALL.
FilterStart ==
    /\ idx = Len(ALL)
    /\ op' = "filter.start"
    /\ args' = <<>>
    /\ ret' = <<>>
    /\ idx' = 0
    /\ kept' = <<>>

\* The traversal visits the next element of ALL and keeps it when it is a
\* downloading stage.
FilterNext ==
    /\ idx < Len(ALL)
    /\ LET x == ALL[idx + 1]
       IN  /\ op' = "filter.next"
           /\ args' = <<x>>
           /\ ret' = is_downloading_stage(x)
           /\ kept' = IF is_downloading_stage(x) THEN Append(kept, x) ELSE kept
    /\ idx' = idx + 1

Next ==
    \/ CallAsStr
    \/ CallToString
    \/ CallIsDownloadingStage
    \/ CallIsTxLookup
    \/ CallIsFinish
    \/ CallRequiresState
    \/ CallEq
    \/ AllFirst
    \/ StateRequiredAt
    \/ FilterStart
    \/ FilterNext

Spec == Init /\ [][Next]_vars

\* The receiver and the right-hand operand of the recorded call.
self == args[1]

other == args[2]

(***************************************************************************)
(* Properties                                                              *)
(***************************************************************************)
\* The elements of a listing, as a set.
Elems(seq) == {seq[i] : i \in DOMAIN seq}

\* A listing without repeated elements.
Distinct(seq) ==
    \A i, j \in DOMAIN seq : i # j => seq[i] # seq[j]

\* The seven identities the State-Required Set is documented to hold.
StateRequiredSet ==
    {Execution, MerkleUnwind, AccountHashing, StorageHashing, MerkleExecute,
     IndexStorageHistory, IndexAccountHistory}

\* The documented name of each identity of the Canonical Ordering.
CanonicalNames ==
    {<<Headers, "Headers">>, <<Bodies, "Bodies">>,
     <<SenderRecovery, "SenderRecovery">>, <<Execution, "Execution">>,
     <<MerkleUnwind, "MerkleUnwind">>, <<AccountHashing, "AccountHashing">>,
     <<StorageHashing, "StorageHashing">>, <<MerkleExecute, "MerkleExecute">>,
     <<TransactionLookup, "TransactionLookup">>,
     <<IndexStorageHistory, "IndexStorageHistory">>,
     <<IndexAccountHistory, "IndexAccountHistory">>, <<Finish, "Finish">>}

\* Same named variant, or both Other with equal wrapped strings.
SameIdentity(a, b) ==
    \/ a \in Named /\ b \in Named /\ a.tag = b.tag
    \/ \E s1 \in Names, s2 \in Names :
           a = Other(s1) /\ b = Other(s2) /\ s1 = s2

\* C1: StageId::ALL has exactly 12 elements, all pairwise distinct, and its
\* first element (what ALL.first() returns) is the Headers identity.
C1_AllTwelveDistinctHeadersFirst ==
    /\ Len(ALL) = 12
    /\ Distinct(ALL)
    /\ ALL[1] = Headers
    /\ (op = "ALL.first" => ret = Headers)

C1_Witness == op = "ALL.first" /\ ret = Headers

\* C2: StageId::STATE_REQUIRED holds exactly 7 pairwise distinct identities
\* and every one of them (every element an index read returns) is also an
\* element of StageId::ALL.
C2_StateRequiredSubsetOfAll ==
    /\ Len(STATE_REQUIRED) = 7
    /\ Distinct(STATE_REQUIRED)
    /\ Elems(STATE_REQUIRED) \subseteq Elems(ALL)
    /\ (op = "STATE_REQUIRED.get" => ret \in Elems(ALL))

C2_Witness ==
    op = "STATE_REQUIRED.get" /\ args = <<7>> /\ ret = IndexAccountHistory

\* C3: for every identity x (canonical, StaticFile, or Other(s), also for
\* s = "Headers" or "Bodies"), is_downloading_stage(x) returns true iff x is
\* the Headers or the Bodies identity.
C3_IsDownloadingStage ==
    op = "is_downloading_stage" => (ret <=> self \in {Headers, Bodies})

C3_Witness ==
    op = "is_downloading_stage" /\ self = Other("Bodies") /\ ret = FALSE

\* C4: for every identity x, is_finish(x) returns true iff x is the Finish
\* identity and is_tx_lookup(x) returns true iff x is the TransactionLookup
\* identity.
C4_IsFinishIsTxLookup ==
    /\ (op = "is_finish" => (ret <=> self = Finish))
    /\ (op = "is_tx_lookup" => (ret <=> self = TransactionLookup))

C4_Witness ==
    op = "is_tx_lookup" /\ self = Other("TransactionLookup") /\ ret = FALSE

\* C5: as_str is total and Display formats identically to it: to_string(x)
\* equals as_str(x) for every identity x; for each of the 12 identities of
\* ALL the string is non-empty and is exactly the variant's identifier; for
\* Other(s) it is exactly s.
C5_NameAndDisplay ==
    /\ (op = "to_string" => ret = as_str(self))
    /\ (op \in {"as_str", "to_string"} =>
            /\ \A p \in CanonicalNames : self = p[1] => ret = p[2]
            /\ self \in Elems(ALL) => ret # ""
            /\ \A str \in Names : self = Other(str) => ret = str)
    /\ \A x \in Elems(ALL) : \E p \in CanonicalNames : p[1] = x

C5_Witness ==
    op = "to_string" /\ self = Other("MyStage") /\ ret = "MyStage"

\* C6: two identities compare equal iff they are the same named variant or
\* both are Other with equal strings; Other("Foo") == Other("Foo"),
\* Other("Foo") != Other("Bar"), and Other("Headers") != Headers although
\* both render as "Headers".
C6_Equality ==
    /\ (op = "eq" => (ret <=> SameIdentity(self, other)))
    /\ (op = "eq" /\ self = Other("Foo") /\ other = Other("Foo") => ret)
    /\ (op = "eq" /\ self = Other("Foo") /\ other = Other("Bar") => ~ret)
    /\ (op = "eq" /\ self = Other("Headers") /\ other = Headers =>
            ~ret /\ as_str(self) = as_str(other))

C6_Witness ==
    op = "eq" /\ self = Other("Headers") /\ other = Headers /\ ret = FALSE

\* C7: requires_state(x) returns true iff x is one of Execution,
\* MerkleUnwind, AccountHashing, StorageHashing, MerkleExecute,
\* IndexStorageHistory, IndexAccountHistory; it is false for Headers, Bodies,
\* SenderRecovery, TransactionLookup, Finish, StaticFile and every Other.
C7_RequiresState ==
    op = "requires_state" => (ret <=> self \in StateRequiredSet)

C7_Witness ==
    op = "requires_state" /\ self = IndexStorageHistory /\ ret = TRUE

\* C8: the deprecated StaticFile identity is in neither StageId::ALL nor
\* StageId::STATE_REQUIRED, while as_str(StaticFile) still returns
\* "StaticFile".
C8_StaticFileUnlisted ==
    /\ StaticFile \notin Elems(ALL)
    /\ StaticFile \notin Elems(STATE_REQUIRED)
    /\ (op = "filter.next" => self # StaticFile)
    /\ (op = "as_str" /\ self = StaticFile => ret = "StaticFile")

C8_Witness == op = "as_str" /\ self = StaticFile /\ ret = "StaticFile"

\* C9: a traversal of ALL from first to last that keeps the elements for
\* which is_downloading_stage is true has kept, at every point, a prefix of
\* <<Headers, Bodies>>, and exactly <<Headers, Bodies>> once it is complete.
C9_FilterDownloading ==
    /\ kept \in {<<>>, <<Headers>>, <<Headers, Bodies>>}
    /\ (idx = Len(ALL) => kept = <<Headers, Bodies>>)

C9_Witness ==
    op = "filter.next" /\ idx = Len(ALL) /\ self = Finish
        /\ kept = <<Headers, Bodies>>

\* C10: as_str is injective on the 13 named variants: a name returned for
\* a named identity is the name of no other named identity, so two distinct
\* identities with the same name always involve an Other.
C10_NamesInjective ==
    /\ (op = "as_str" /\ self \in Named =>
            \A n \in Named : as_str(n) = ret => n = self)
    /\ \A a \in StageId, b \in StageId :
           a # b /\ as_str(a) = as_str(b) => a.tag = 13 \/ b.tag = 13

C10_Witness ==
    op = "as_str" /\ self = IndexAccountHistory
        /\ ret = "IndexAccountHistory"

====
